---- MODULE Spec2Model ----
(***************************************************************************)
(* Model of the managed cluster add-on lease controller                    *)
(* (pkg/spoke/addon/lease_controller.go).                                  *)
(*                                                                         *)
(* Go strings that are parsed or concatenated (names, namespaces, queue    *)
(* keys) are sequences of tokens; the token "/" is the key separator.      *)
(* Time is counted in seconds.                                             *)
(***************************************************************************)
EXTENDS Integers, Sequences, FiniteSets, TLC

\* ---------------------------------------------------------------- bounds
\* number of clock advances explored
MaxTicks == 1
\* number of changes the environment makes to leases and add-ons
MaxEnv == 1

\* ------------------------------------------------------------- constants
addOnAvailableConditionType == "ManagedClusterAddOnConditionAvailable"
leaseDurationSeconds == 60
leaseDurationTimes == 5

\* factory.DefaultQueueKey, the key of a periodic resync
DefaultQueueKey == <<"key">>

\* the cluster namespace the controller is constructed with
clusterName == <<"cluster1">>

\* names of the add-ons of the cluster; the add-ons the environment acts on
\* (changes, deletes, runs an agent for); lease namespaces
Names == {<<"a">>, <<"b">>}
ActiveNames == {<<"a">>}
Namespaces == {<<"ns1">>, <<"ns2">>}
\* steps by which the injected clock advances
TickSteps == {299, 300}

ConditionTrue == "True"
ConditionFalse == "False"
ConditionUnknown == "Unknown"

\* ------------------------------------------------------------- the state
VARIABLES
    now,         \* c.clock.Now()
    ticks,       \* clock advances so far
    leases,      \* leaseLister: lease cache, (namespace, name) -> lease
    addOnStore,  \* hub API server: add-on name -> add-on, in clusterName
    addOnCache,  \* addOnLister: informer cache of the add-ons of clusterName
    queue,       \* work queue items waiting (keys and enqueued objects)
    inflight,    \* key -> reconciliation that has read and is about to update
    epoch,       \* environment changes so far
    last,        \* outcome of the invocation of sync that the last step
                 \* completed, NoRun when it completed none
    prev         \* the invocation that completed last, when it updated the status
                 \* and the environment has not changed since it started

vars == <<now, ticks, leases, addOnStore, addOnCache, queue, inflight, epoch, last, prev>>

\* ------------------------------------------------------- data structures
NoLease == [exists |-> FALSE, renewTime |-> 0]
Lease(t) == [exists |-> TRUE, renewTime |-> t]

NoConfig == [readable |-> FALSE, InstallationNamespace |-> <<>>]
Config(ns) == [readable |-> TRUE, InstallationNamespace |-> ns]

NoAddOn == [exists |-> FALSE, config |-> NoConfig, conditions |-> <<>>]
AddOn(cfg, conds) == [exists |-> TRUE, config |-> cfg, conditions |-> conds]

Condition(t, s, r, m) == [Type |-> t, Status |-> s, Reason |-> r, Message |-> m]
NoCondition == Condition("", "", "", "")

\* a queue item is a string (a key) or, from a resync, the add-on object
KeyItem(k) == [isString |-> TRUE, key |-> k]
AddOnItem(n) == [isString |-> FALSE, key |-> n]

\* ------------------------------------------------------- string helpers
\* index of the first "/" of s, 0 when there is none
RECURSIVE IndexSlash(_, _)
IndexSlash(s, i) ==
    IF i > Len(s) THEN 0
    ELSE IF s[i] = "/" THEN i
    ELSE IndexSlash(s, i + 1)

\* strings.Split(s, "/")
RECURSIVE StringsSplit(_)
StringsSplit(s) ==
    LET i == IndexSlash(s, 1) IN
    IF i = 0 THEN <<s>>
    ELSE <<SubSeq(s, 1, i - 1)>> \o StringsSplit(SubSeq(s, i + 1, Len(s)))

\* cache.SplitMetaNamespaceKey: one part is a name without namespace, two
\* parts are namespace and name, anything else is an error
SplitMetaNamespaceKey(key) ==
    LET parts == StringsSplit(key) IN
    IF Len(parts) = 1 THEN [err |-> FALSE, namespace |-> <<>>, name |-> parts[1]]
    ELSE IF Len(parts) = 2 THEN [err |-> FALSE, namespace |-> parts[1], name |-> parts[2]]
    ELSE [err |-> TRUE, namespace |-> <<>>, name |-> <<>>]

\* namespace + "/" + name
JoinKey(namespace, name) == namespace \o <<"/">> \o name

\* ------------------------------------------------------------ collaborators
\* getAddOnConfig: the configuration of an add-on, or an error
getAddOnConfig(addOn) ==
    [err |-> ~addOn.config.readable,
     InstallationNamespace |-> addOn.config.InstallationNamespace]

\* c.addOnLister.ManagedClusterAddOns(c.clusterName).Get(name)
AddOnListerGet(name) ==
    IF name \in DOMAIN addOnCache /\ addOnCache[name].exists
    THEN [notFound |-> FALSE, addOn |-> addOnCache[name]]
    ELSE [notFound |-> TRUE, addOn |-> NoAddOn]

\* c.addOnLister.ManagedClusterAddOns(c.clusterName).List(labels.Everything())
AddOnListerList == {n \in DOMAIN addOnCache : addOnCache[n].exists}

\* c.leaseLister.Leases(leaseNamespace).Get(name)
LeaseListerGet(namespace, name) ==
    IF <<namespace, name>> \in DOMAIN leases /\ leases[<<namespace, name>>].exists
    THEN [notFound |-> FALSE, lease |-> leases[<<namespace, name>>]]
    ELSE [notFound |-> TRUE, lease |-> NoLease]

\* index of the first condition of the given type, 0 when there is none
RECURSIVE FindStatusCondition(_, _, _)
FindStatusCondition(conditions, conditionType, i) ==
    IF i > Len(conditions) THEN 0
    ELSE IF conditions[i].Type = conditionType THEN i
    ELSE FindStatusCondition(conditions, conditionType, i + 1)

\* meta.IsStatusConditionPresentAndEqual
IsStatusConditionPresentAndEqual(conditions, conditionType, status) ==
    LET i == FindStatusCondition(conditions, conditionType, 1) IN
    i # 0 /\ conditions[i].Status = status

\* mutant of SetStatusCondition: the condition is always appended
SetStatusConditionAppend(conditions, newCondition) == Append(conditions, newCondition)

\* meta.SetStatusCondition, as applied by UpdateManagedClusterAddOnStatusFn:
\* replace the condition of that type, append it when there is none
SetStatusCondition(conditions, newCondition) ==
    LET i == FindStatusCondition(conditions, newCondition.Type, 1) IN
    IF i = 0 THEN Append(conditions, newCondition)
    ELSE [conditions EXCEPT ![i] = newCondition]

\* ------------------------------------------------------ condition evaluation
gracePeriod == leaseDurationTimes * leaseDurationSeconds

\* mutants of LeaseIsFresh: the multiplier forgotten; the comparison inclusive
LeaseIsFreshOneInterval(t, renewTime) == t < renewTime + leaseDurationSeconds
LeaseIsFreshInclusive(t, renewTime) == t <= renewTime + gracePeriod

\* now.Before(observedLease.Spec.RenewTime.Add(gracePeriod))
LeaseIsFresh(t, renewTime) == t < renewTime + gracePeriod

LeaseNotFoundCondition ==
    Condition(addOnAvailableConditionType, ConditionUnknown,
              "ManagedClusterAddOnLeaseNotFound",
              "Managed cluster addon agent lease is not found.")

LeaseUpdatedCondition ==
    Condition(addOnAvailableConditionType, ConditionTrue,
              "ManagedClusterAddOnLeaseUpdated",
              "Managed cluster addon agent updates its lease constantly.")

LeaseUpdateStoppedCondition ==
    Condition(addOnAvailableConditionType, ConditionFalse,
              "ManagedClusterAddOnLeaseUpdateStopped",
              "Managed cluster addon agent stopped updating its lease.")

\* mutant of EvaluateCondition: a missing lease taken for a stopped one
EvaluateConditionMissingIsStopped(got, t) ==
    IF got.notFound THEN LeaseUpdateStoppedCondition
    ELSE IF LeaseIsFresh(t, got.lease.renewTime) THEN LeaseUpdatedCondition
    ELSE LeaseUpdateStoppedCondition

\* the switch of syncSingle on the outcome of the lease lookup
EvaluateCondition(got, t) ==
    IF got.notFound THEN LeaseNotFoundCondition
    ELSE IF LeaseIsFresh(t, got.lease.renewTime) THEN LeaseUpdatedCondition
    ELSE LeaseUpdateStoppedCondition

\* mutant of queueKeyFunc: the namespace of the lease is not compared
queueKeyFuncAnyNamespace(namespace, name) ==
    LET got == AddOnListerGet(name)
        cfg == getAddOnConfig(got.addOn)
    IN  IF got.notFound THEN <<>>
        ELSE IF cfg.err THEN <<>>
        ELSE JoinKey(namespace, name)

\* queueKeyFunc: the key of a changed lease, <<>> (the empty string) to ignore it
queueKeyFunc(namespace, name) ==
    LET got == AddOnListerGet(name)
        cfg == getAddOnConfig(got.addOn)
    IN  IF got.notFound THEN <<>>
        ELSE IF cfg.err THEN <<>>
        ELSE IF namespace # cfg.InstallationNamespace THEN <<>>
        ELSE JoinKey(namespace, name)

\* mutant of StatusUnchanged: the reason is compared as well
StatusUnchangedWithReason(conditions, condition) ==
    LET i == FindStatusCondition(conditions, condition.Type, 1) IN
    i # 0 /\ conditions[i].Status = condition.Status
          /\ conditions[i].Reason = condition.Reason

\* the check of syncSingle that the status of the add-on is not changed
StatusUnchanged(conditions, condition) ==
    IsStatusConditionPresentAndEqual(conditions, condition.Type, condition.Status)

\* mutant of EventRecorded: an event for every update that returns no error
EventRecordedAlways(updated) == TRUE

\* mutant of EventRecorded: no event is recorded at all
EventRecordedNever(updated) == FALSE

\* "if updated { recorder.Eventf(...) }"
EventRecorded(updated) == updated

\* mutant of UpdateManagedClusterAddOnStatus: the condition is set on the
\* conditions of the cached add-on and the result overwrites the hub's
UpdateManagedClusterAddOnStatusFromCache(name, condition) ==
    IF ~(name \in DOMAIN addOnStore /\ addOnStore[name].exists)
    THEN [err |-> TRUE, updated |-> FALSE, conditions |-> <<>>]
    ELSE LET oldStatus == addOnStore[name].conditions
             newStatus == SetStatusCondition(addOnCache[name].conditions, condition)
         IN  [err |-> FALSE, updated |-> newStatus # oldStatus, conditions |-> newStatus]

\* helpers.UpdateManagedClusterAddOnStatus(ctx, client, clusterName, name,
\* UpdateManagedClusterAddOnStatusFn(condition)): read the add-on from the hub,
\* set the condition, write the status when it differs; a write conflict is
\* retried from the read, so the read and the write act as one step
UpdateManagedClusterAddOnStatus(name, condition) ==
    IF ~(name \in DOMAIN addOnStore /\ addOnStore[name].exists)
    THEN [err |-> TRUE, updated |-> FALSE, conditions |-> <<>>]
    ELSE LET oldStatus == addOnStore[name].conditions
             newStatus == SetStatusCondition(oldStatus, condition)
         IN  [err |-> FALSE, updated |-> newStatus # oldStatus, conditions |-> newStatus]

\* ------------------------------------------------- record of an invocation
NoRun ==
    [kind |-> "none", stage |-> "none", key |-> <<>>, name |-> <<>>,
     leaseNamespace |-> <<>>, readConfig |-> NoConfig, readConditions |-> <<>>,
     leaseGet |-> "none", renewTime |-> 0, now |-> 0, condition |-> NoCondition,
     updateCalled |-> FALSE, updated |-> FALSE, event |-> FALSE, err |-> FALSE,
     enqueued |-> {}, storedBefore |-> <<>>, storedAfter |-> <<>>, startEpoch |-> 0, quiet |-> FALSE,
     prevUpdated |-> FALSE, prevEvent |-> FALSE, prevCondition |-> NoCondition]

\* the conditions the hub stores for an add-on, <<>> when it does not exist
StoredConditions(store, name) ==
    IF name \in DOMAIN store /\ store[name].exists THEN store[name].conditions ELSE <<>>

\* what a later reconciliation is compared with
NoPrev == [updated |-> FALSE, key |-> <<>>, condition |-> NoCondition, event |-> FALSE]

\* the record of a completed invocation: the hub's conditions before its
\* last step and after it,
\* whether the environment left leases and add-ons alone while it ran, and,
\* when the invocation completed just before it was a reconciliation of the
\* same key that updated the status, what that one computed and recorded
Complete(run, store) ==
    LET same == prev.updated /\ prev.key = run.key IN
    [run EXCEPT !.startEpoch = 0,
                !.quiet = run.startEpoch = epoch,
                !.storedBefore = StoredConditions(addOnStore, run.name),
                !.storedAfter = StoredConditions(store, run.name),
                !.prevUpdated = same,
                !.prevEvent = same /\ prev.event,
                !.prevCondition = IF same THEN prev.condition ELSE NoCondition]

\* a step that completes the invocation run: prev keeps a reconciliation
\* that updated the status with no change of the environment while it ran
Completes(run, store) ==
    /\ last' = Complete(run, store)
    /\ prev' = IF run.kind = "single" /\ run.updated /\ run.startEpoch = epoch
               THEN [updated |-> TRUE, key |-> run.key,
                     condition |-> run.condition, event |-> run.event]
               ELSE NoPrev

\* a step that completes no invocation
CompletesNone == last' = NoRun /\ UNCHANGED prev

\* a step of the environment
EnvironmentChanged == last' = NoRun /\ prev' = NoPrev

\* ---------------------------------------------------------------- Init
InitialConditions ==
    {<<>>,
     <<Condition(addOnAvailableConditionType, ConditionTrue, "Foreign", "set by another writer")>>}

Init ==
    /\ now = 0
    /\ ticks = 0
    /\ \E held \in BOOLEAN :
          leases = [l \in Namespaces \X ActiveNames |->
                      IF held /\ l[1] = <<"ns1">> THEN Lease(0) ELSE NoLease]
    /\ \E conds \in InitialConditions :
          addOnStore = [n \in Names |->
                          IF n = <<"a">> THEN AddOn(Config(<<"ns1">>), conds)
                          ELSE AddOn(NoConfig, <<>>)]
    /\ addOnCache = addOnStore
    /\ queue = {}
    /\ inflight = <<>>
    /\ epoch = 0
    /\ last = NoRun
    /\ prev = NoPrev

\* ------------------------------------------------------ the controller
\* sync with the default key: the periodic resync. ResyncEvery(resyncInterval)
\* adds the default key and a worker takes it at once.
\* mutant of ResyncEnqueue: the configuration is not looked at
ResyncEnqueueAll == {AddOnItem(n) : n \in AddOnListerList}

\* the add-ons the loop of the resync adds to the queue
ResyncEnqueue ==
    {AddOnItem(n) : n \in {m \in AddOnListerList : ~getAddOnConfig(addOnCache[m]).err}}

\* mutant of ResyncListErrQueue: the loop runs although the listing failed
ResyncListErrQueueLoop == queue \cup ResyncEnqueue

\* the queue after a resync whose listing failed: "return err" comes
\* before the loop
ResyncListErrQueue == queue

Resync(listErr) ==
    /\ LET run == [NoRun EXCEPT !.kind = "resync", !.key = DefaultQueueKey,
                                !.startEpoch = epoch, !.now = now]
       IN  IF listErr
           THEN /\ Completes([run EXCEPT !.stage = "listErr", !.err = TRUE], addOnStore)
                /\ queue' = ResyncListErrQueue
           ELSE /\ Completes([run EXCEPT !.stage = "listed",
                                           !.enqueued = ResyncEnqueue], addOnStore)
                /\ queue' = queue \cup ResyncEnqueue
    /\ UNCHANGED <<now, ticks, leases, addOnStore, addOnCache, inflight, epoch>>

\* sync with another key up to the check that the status is unchanged:
\* parse the key, get the add-on, get the lease, compute the condition;
\* fault names the lookup that returns an error other than not-found
\* mutant of AddOnNotFound: a missing add-on is returned as an error
AddOnNotFoundIsError(run) == [run EXCEPT !.stage = "addOnNotFound", !.err = TRUE]

\* "if errors.IsNotFound(err) { return nil }" after the lookup of the add-on
AddOnNotFound(run) == [run EXCEPT !.stage = "addOnNotFound"]

\* "if err != nil { return err }" after the lookup of the add-on
AddOnGetErr(run) == [run EXCEPT !.stage = "addOnGetErr", !.err = TRUE]

\* mutant of LeaseGetErr: the error of the lease lookup is not returned
LeaseGetErrSwallowed(run) == [run EXCEPT !.stage = "leaseGetErr"]

\* "case err != nil: return err" after the lookup of the lease
LeaseGetErr(run) == [run EXCEPT !.stage = "leaseGetErr", !.err = TRUE]

SyncRead(key, fault) ==
    LET split == SplitMetaNamespaceKey(key)
        got == AddOnListerGet(split.name)
        lease == LeaseListerGet(split.namespace, split.name)
        condition == EvaluateCondition(lease, now)
        run0 == [NoRun EXCEPT !.kind = "single", !.key = key,
                              !.startEpoch = epoch, !.now = now]
        run1 == [run0 EXCEPT !.name = split.name, !.leaseNamespace = split.namespace]
        run2 == [run1 EXCEPT !.readConfig = got.addOn.config,
                             !.readConditions = got.addOn.conditions]
        run3 == [run2 EXCEPT !.leaseGet = IF lease.notFound THEN "notFound" ELSE "found",
                             !.renewTime = lease.lease.renewTime,
                             !.condition = condition]
    IN  IF split.err THEN [run0 EXCEPT !.stage = "badKey"]
        ELSE IF fault = "addOnGet" THEN AddOnGetErr(run1)
        ELSE IF got.notFound THEN AddOnNotFound(run1)
        ELSE IF fault = "leaseGet" THEN LeaseGetErr(run2)
        ELSE IF StatusUnchanged(got.addOn.conditions, condition)
             THEN [run3 EXCEPT !.stage = "unchanged"]
        ELSE [run3 EXCEPT !.stage = "update"]

Sync(item, fault) ==
    /\ item \in queue
    /\ item.isString
    /\ item.key # DefaultQueueKey
    /\ item.key \notin DOMAIN inflight
    /\ LET run == SyncRead(item.key, fault) IN
       IF run.stage = "update"
       THEN /\ inflight' = (item.key :> run) @@ inflight
            /\ queue' = queue \ {item}
            /\ CompletesNone
       ELSE /\ Completes(run, addOnStore)
            /\ queue' = IF run.err THEN queue ELSE queue \ {item}
            /\ UNCHANGED inflight
    /\ UNCHANGED <<now, ticks, leases, addOnStore, addOnCache, epoch>>

\* mutant of UpdateTarget: the status of another add-on is updated
UpdateTargetOther(run) == <<"b">>

\* the add-on whose status is updated: addOn.Name, in the namespace
\* c.clusterName
UpdateTarget(run) == run.name

\* mutant of UpdateError: the error of the update is not returned
UpdateErrorSwallowed(failed) == FALSE

\* "if err != nil { return err }" after the update of the status
UpdateError(failed) == failed

\* the rest of syncSingle: update the status, record the event
Update(key, updateErr) ==
    /\ key \in DOMAIN inflight
    /\ LET run == inflight[key]
           res == UpdateManagedClusterAddOnStatus(UpdateTarget(run), run.condition)
           failed == updateErr \/ res.err
           updated == ~failed /\ res.updated
           store == IF updated
                    THEN [addOnStore EXCEPT ![UpdateTarget(run)].conditions = res.conditions]
                    ELSE addOnStore
       IN  /\ addOnStore' = store
           /\ Completes([run EXCEPT !.stage = IF failed THEN "updateErr" ELSE "updated",
                                      !.updateCalled = TRUE,
                                      !.updated = updated,
                                      !.event = ~failed /\ EventRecorded(updated),
                                      !.err = UpdateError(failed)], store)
           /\ queue' = IF UpdateError(failed) THEN queue \cup {KeyItem(key)} ELSE queue
    /\ inflight' = [k \in DOMAIN inflight \ {key} |-> inflight[k]]
    /\ UNCHANGED <<now, ticks, leases, addOnCache, epoch>>

\* ----------------------------------------------------- the queue runtime
\* a queue item that is not a string has no queue key: the worker drops it
\* without calling sync
DropNonString(item) ==
    /\ item \in queue
    /\ ~item.isString
    /\ queue' = queue \ {item}
    /\ CompletesNone
    /\ UNCHANGED <<now, ticks, leases, addOnStore, addOnCache, inflight, epoch>>

\* the lease informer calls queueKeyFunc for a changed lease and adds the
\* key; an empty key is ignored
Enqueued(namespace, name) ==
    LET key == queueKeyFunc(namespace, name) IN
    IF key = <<>> THEN queue ELSE queue \cup {KeyItem(key)}

\* ------------------------------------------------------ the environment
Tick(d) ==
    /\ ticks < MaxTicks
    /\ now' = now + d
    /\ ticks' = ticks + 1
    /\ EnvironmentChanged
    /\ UNCHANGED <<leases, addOnStore, addOnCache, queue, inflight, epoch>>

\* an agent creates or renews its lease
RenewLease(namespace, name) ==
    /\ epoch < MaxEnv
    /\ leases[<<namespace, name>>] # Lease(now)
    /\ leases' = [leases EXCEPT ![<<namespace, name>>] = Lease(now)]
    /\ queue' = Enqueued(namespace, name)
    /\ epoch' = epoch + 1
    /\ EnvironmentChanged
    /\ UNCHANGED <<now, ticks, addOnStore, addOnCache, inflight>>

\* the lease informer delivers a lease again without a change (its resync)
NotifyLease(namespace, name) ==
    /\ leases[<<namespace, name>>].exists
    /\ queue' = Enqueued(namespace, name)
    /\ queue' # queue
    /\ CompletesNone
    /\ UNCHANGED <<now, ticks, leases, addOnStore, addOnCache, inflight, epoch>>

DeleteLease(namespace, name) ==
    /\ epoch < MaxEnv
    /\ leases[<<namespace, name>>].exists
    /\ leases' = [leases EXCEPT ![<<namespace, name>>] = NoLease]
    /\ queue' = Enqueued(namespace, name)
    /\ epoch' = epoch + 1
    /\ EnvironmentChanged
    /\ UNCHANGED <<now, ticks, addOnStore, addOnCache, inflight>>

\* the hub changes the configuration of an add-on
SetConfig(name, cfg) ==
    /\ epoch < MaxEnv
    /\ addOnStore[name].exists
    /\ addOnStore[name].config # cfg
    /\ addOnStore' = [addOnStore EXCEPT ![name].config = cfg]
    /\ epoch' = epoch + 1
    /\ EnvironmentChanged
    /\ UNCHANGED <<now, ticks, leases, addOnCache, queue, inflight>>

DeleteAddOn(name) ==
    /\ epoch < MaxEnv
    /\ addOnStore[name].exists
    /\ addOnStore' = [addOnStore EXCEPT ![name] = NoAddOn]
    /\ epoch' = epoch + 1
    /\ EnvironmentChanged
    /\ UNCHANGED <<now, ticks, leases, addOnCache, queue, inflight>>

\* another writer of the add-on status adds a condition of its own type
OtherCondition == Condition("RegistrationApplied", ConditionTrue, "Other", "other")

OtherWriter(name) ==
    /\ epoch < MaxEnv
    /\ addOnStore[name].exists
    /\ FindStatusCondition(addOnStore[name].conditions, OtherCondition.Type, 1) = 0
    /\ addOnStore' = [addOnStore EXCEPT
                        ![name].conditions = SetStatusCondition(@, OtherCondition)]
    /\ epoch' = epoch + 1
    /\ EnvironmentChanged
    /\ UNCHANGED <<now, ticks, leases, addOnCache, queue, inflight>>

\* the add-on informer catches up with the hub
CacheSync(name) ==
    /\ addOnCache[name] # addOnStore[name]
    /\ addOnCache' = [addOnCache EXCEPT ![name] = addOnStore[name]]
    /\ CompletesNone
    /\ UNCHANGED <<now, ticks, leases, addOnStore, queue, inflight, epoch>>

\* the lookup of sync that fails with an error other than not-found
Faults == {"none", "addOnGet", "leaseGet"}

Configs == {Config(ns) : ns \in Namespaces} \cup {NoConfig}

Next ==
    \/ \E listErr \in BOOLEAN : Resync(listErr)
    \/ \E item \in queue, fault \in Faults : Sync(item, fault)
    \/ \E key \in DOMAIN inflight, updateErr \in BOOLEAN : Update(key, updateErr)
    \/ \E item \in queue : DropNonString(item)
    \/ \E d \in TickSteps : Tick(d)
    \/ \E ns \in Namespaces, n \in ActiveNames : RenewLease(ns, n)
    \/ \E ns \in Namespaces, n \in ActiveNames : NotifyLease(ns, n)
    \/ \E ns \in Namespaces, n \in ActiveNames : DeleteLease(ns, n)
    \/ \E n \in ActiveNames, cfg \in Configs : SetConfig(n, cfg)
    \/ \E n \in ActiveNames : DeleteAddOn(n)
    \/ \E n \in ActiveNames : OtherWriter(n)
    \/ \E n \in Names : CacheSync(n)

Spec == Init /\ [][Next]_vars

\* the scheduling the controller can count on: the resync timer fires and
\* the listing succeeds again and again, a worker takes every queue item, a
\* lookup and an update that are tried again and again succeed, and the
\* add-on informer catches up. Nothing makes a lease notification arrive.
Fairness ==
    /\ WF_vars(Resync(FALSE))
    /\ WF_vars(\E item \in queue : Sync(item, "none"))
    /\ SF_vars(\E key \in DOMAIN inflight : Update(key, FALSE))
    /\ WF_vars(\E item \in queue : DropNonString(item))
    /\ WF_vars(\E n \in Names : CacheSync(n))

FairSpec == Init /\ [][Next]_vars /\ Fairness

\* sync called with a key that queueKeyFunc does not make: the queue holds
\* at the start one key without separator or with two separators
GivenKeys == {<<"a">>, <<"ns1", "/", "a", "/", "x">>}

InitGivenKey ==
    /\ now = 0
    /\ ticks = 0
    /\ \E held \in BOOLEAN :
          leases = [l \in Namespaces \X ActiveNames |->
                      IF held /\ l[1] = <<"ns1">> THEN Lease(0) ELSE NoLease]
    /\ \E conds \in InitialConditions :
          addOnStore = [n \in Names |->
                          IF n = <<"a">> THEN AddOn(Config(<<"ns1">>), conds)
                          ELSE AddOn(NoConfig, <<>>)]
    /\ addOnCache = addOnStore
    /\ \E key \in GivenKeys : queue = {KeyItem(key)}
    /\ inflight = <<>>
    /\ epoch = 0
    /\ last = NoRun
    /\ prev = NoPrev

SpecGivenKey == InitGivenKey /\ [][Next]_vars

\* the agent of add-on a has a lease in both namespaces at the start, as
\* after a move of the add-on from one installation namespace to the other
InitTwoLeases ==
    /\ now = 0
    /\ ticks = 0
    /\ leases = [l \in Namespaces \X ActiveNames |-> Lease(0)]
    /\ \E conds \in InitialConditions :
          addOnStore = [n \in Names |->
                          IF n = <<"a">> THEN AddOn(Config(<<"ns1">>), conds)
                          ELSE AddOn(NoConfig, <<>>)]
    /\ addOnCache = addOnStore
    /\ queue = {}
    /\ inflight = <<>>
    /\ epoch = 0
    /\ last = NoRun
    /\ prev = NoPrev

SpecTwoLeases == InitTwoLeases /\ [][Next]_vars

\* ================================================================ claims
\* the reconciliations that have computed a condition: the one that
\* completed last and those that are about to update the status
Evaluated ==
    {r \in {last} \cup {inflight[k] : k \in DOMAIN inflight} :
        r.kind = "single" /\ r.condition # NoCondition}

\* the status of the available condition in a list of conditions, "" if none
AvailableStatus(conditions) ==
    LET i == FindStatusCondition(conditions, addOnAvailableConditionType, 1) IN
    IF i = 0 THEN "" ELSE conditions[i].Status

AvailableReason(conditions) ==
    LET i == FindStatusCondition(conditions, addOnAvailableConditionType, 1) IN
    IF i = 0 THEN "" ELSE conditions[i].Reason

\* C1: a reconciliation that finds the lease and runs at a time before
\* renewTime + 300s computes the available condition with status True and
\* the reason of an updated lease; the grace period is 5 x 60s = 300s.
C1_FreshLeaseIsAvailable ==
    \A r \in Evaluated :
        (r.leaseGet = "found" /\ r.now < r.renewTime + 300) =>
            /\ r.condition.Type = "ManagedClusterAddOnConditionAvailable"
            /\ r.condition.Status = "True"
            /\ r.condition.Reason = "ManagedClusterAddOnLeaseUpdated"

\* a completed reconciliation 299s after the renewal computed True
C1_Witness ==
    /\ last.kind = "single" /\ last.leaseGet = "found"
    /\ last.now = last.renewTime + 299
    /\ last.condition.Status = "True"

\* C2: a reconciliation that finds the lease and runs at renewTime + 300s
\* or later computes status False with the reason of a stopped lease, and a
\* found lease never gives a status other than True or False.
C2_StaleLeaseIsUnavailable ==
    \A r \in Evaluated :
        r.leaseGet = "found" =>
            /\ r.condition.Status \in {"True", "False"}
            /\ (r.renewTime + 300 <= r.now =>
                    /\ r.condition.Type = "ManagedClusterAddOnConditionAvailable"
                    /\ r.condition.Status = "False"
                    /\ r.condition.Reason = "ManagedClusterAddOnLeaseUpdateStopped")

\* a completed reconciliation exactly 300s after the renewal computed False
C2_Witness ==
    /\ last.kind = "single" /\ last.leaseGet = "found"
    /\ last.now = last.renewTime + 300
    /\ last.condition.Status = "False"

\* C3: a reconciliation whose lease lookup returns not-found computes status
\* Unknown with the reason of a lease not found; not-found is no error (the
\* reconciliation fails only if the status update fails); the update is
\* skipped when the add-on it read already has status Unknown and is called
\* otherwise, and after a successful update the hub stores status Unknown.
C3_MissingLeaseIsUnknown ==
    /\ \A r \in Evaluated :
          r.leaseGet = "notFound" =>
              /\ r.condition.Type = "ManagedClusterAddOnConditionAvailable"
              /\ r.condition.Status = "Unknown"
              /\ r.condition.Reason = "ManagedClusterAddOnLeaseNotFound"
    /\ (last.kind = "single" /\ last.leaseGet = "notFound") =>
          /\ last.err => last.stage = "updateErr"
          /\ AvailableStatus(last.readConditions) = "Unknown" =>
                ~last.updateCalled /\ ~last.err
          /\ AvailableStatus(last.readConditions) # "Unknown" =>
                /\ last.updateCalled
                /\ ~last.err => AvailableStatus(last.storedAfter) = "Unknown"

\* a missing lease made the hub's status Unknown, where the add-on read had
\* another status
C3_Witness ==
    /\ last.kind = "single" /\ last.leaseGet = "notFound"
    /\ AvailableStatus(last.readConditions) = "True"
    /\ last.updated
    /\ AvailableStatus(last.storedAfter) = "Unknown"

\* C4: two reconciliations of the same key, one right after the other, with
\* no change of a lease, an add-on or the clock from the start of the first
\* to the end of the second: when the first wrote the status, the second
\* writes nothing and the two record one event in all.
C4_Idempotent ==
    (/\ last.kind = "single"
     /\ last.prevUpdated
     /\ last.quiet
     /\ last.condition \in {NoCondition, last.prevCondition}) =>
        /\ ~last.updated
        /\ ~(last.prevEvent /\ last.event)

\* the first run wrote; the second read the add-on from a cache that had not
\* caught up, called the update and changed nothing
C4_Witness ==
    /\ last.kind = "single"
    /\ last.prevUpdated /\ last.prevEvent
    /\ last.quiet
    /\ last.condition = last.prevCondition
    /\ last.updateCalled /\ ~last.updated /\ ~last.event /\ ~last.err

\* C5: when the add-on that the reconciliation read has an available
\* condition with the computed status, the reconciliation calls no update
\* and records no event, whatever the stored reason and message are.
C5_DedupOnStatus ==
    /\ \A k \in DOMAIN inflight :
          AvailableStatus(inflight[k].readConditions) # inflight[k].condition.Status
    /\ (/\ last.kind = "single"
        /\ last.condition # NoCondition
        /\ AvailableStatus(last.readConditions) = last.condition.Status) =>
            ~last.updateCalled /\ ~last.updated /\ ~last.event /\ ~last.err

\* same status, another reason: nothing written, no event
C5_Witness ==
    /\ last.kind = "single"
    /\ last.condition = LeaseUpdatedCondition
    /\ AvailableStatus(last.readConditions) = "True"
    /\ AvailableReason(last.readConditions) = "Foreign"
    /\ AvailableReason(last.storedAfter) = "Foreign"
    /\ last.stage = "unchanged"

\* the leases a notification can be about: those of the model and one whose
\* name is the name of no add-on
NotifiedNames == Names \cup {<<"c">>}

\* C6: queueKeyFunc gives a non-empty key for a lease (ns, name) exactly when
\* the cache has an add-on of that name, its configuration is readable and ns
\* is its installation namespace; the key is then ns, "/", name and parses
\* back to (ns, name). In every other case the key is empty and nothing is
\* added to the queue.
C6_QueueKey ==
    \A ns \in Namespaces, n \in NotifiedNames :
        LET key == queueKeyFunc(ns, n)
            owned == /\ n \in Names
                     /\ addOnCache[n].exists
                     /\ addOnCache[n].config.readable
                     /\ addOnCache[n].config.InstallationNamespace = ns
        IN  /\ key # <<>> <=> owned
            /\ owned =>
                  /\ key = <<ns[1], "/", n[1]>>
                  /\ SplitMetaNamespaceKey(key) =
                        [err |-> FALSE, namespace |-> ns, name |-> n]
                  /\ Enqueued(ns, n) = queue \cup {KeyItem(key)}
            /\ ~owned => Enqueued(ns, n) = queue

\* add-on a is installed in ns1 and has a lease in ns1 and one in ns2: the
\* key of the first is in the queue, the second was ignored
C6_Witness ==
    /\ leases[<<(<<"ns1">>), (<<"a">>)>>].exists
    /\ leases[<<(<<"ns2">>), (<<"a">>)>>].exists
    /\ addOnCache[<<"a">>].config = Config(<<"ns1">>)
    /\ queue = {KeyItem(<<"ns1", "/", "a">>)}
    /\ inflight = <<>>
    /\ last = NoRun

C8_LeaseNamespaceIsInstallationNamespace ==
    \A r \in Evaluated :
        /\ r.readConfig.readable
        /\ r.leaseNamespace = r.readConfig.InstallationNamespace

\* C9: every add-on has at most one condition of the available type.
C9_OneAvailableCondition ==
    \A n \in Names :
        Cardinality({i \in 1..Len(addOnStore[n].conditions) :
                        addOnStore[n].conditions[i].Type
                            = "ManagedClusterAddOnConditionAvailable"}) <= 1

\* an update replaced the available condition of an add-on that had one and
\* that has a condition of another type as well
C9_Witness ==
    /\ last.kind = "single" /\ last.updated
    /\ AvailableStatus(last.readConditions) # ""
    /\ Len(last.storedAfter) = 2
    /\ AvailableStatus(last.storedAfter) = last.condition.Status
    /\ addOnStore[last.name].conditions = last.storedAfter

\* C10: when a reconciliation of an add-on completes without error and the
\* hub stores conditions for the add-on, the status of the stored available
\* condition is the status the reconciliation computed.
C10_StoredIsLastComputed ==
    (/\ last.kind = "single"
     /\ last.condition # NoCondition
     /\ ~last.err
     /\ last.storedAfter # <<>>) =>
        AvailableStatus(last.storedAfter) = last.condition.Status

\* C12: a reconciliation records an event exactly when its update of the
\* status was called, returned no error and reported a change, and it reports
\* a change exactly when the conditions the hub stores are not those stored
\* before; an invocation that is no reconciliation records no event and
\* changes nothing. Every completed invocation so records one event for a
\* changed write and none otherwise, hence as many events as changed writes.
C12_EventIffChangedWrite ==
    /\ last.kind = "single" =>
          /\ last.event <=> (last.updateCalled /\ ~last.err /\ last.updated)
          /\ last.updated <=> last.storedAfter # last.storedBefore
    /\ last.kind # "single" =>
          ~last.event /\ ~last.updated /\ last.storedAfter = last.storedBefore

\* an update that changed the stored status and recorded its event
C12_Witness ==
    /\ last.kind = "single" /\ last.stage = "updated"
    /\ last.updated /\ last.event
    /\ AvailableStatus(last.storedBefore) # last.condition.Status
    /\ AvailableStatus(last.storedAfter) = last.condition.Status

\* C13: an update of the status that returns no error keeps every condition
\* of another type that the hub stored when the update ran, also one that
\* another writer added after the reconciliation read the add-on from its
\* cache, and leaves the computed available condition stored with them; an
\* update that fails leaves its key in the queue, so it is tried again.
C13_OtherWritersKept ==
    /\ (last.kind = "single" /\ last.updateCalled /\ ~last.err) =>
          /\ \A i \in 1..Len(last.storedBefore) :
                last.storedBefore[i].Type # addOnAvailableConditionType =>
                    \E j \in 1..Len(last.storedAfter) :
                        last.storedAfter[j] = last.storedBefore[i]
          /\ AvailableStatus(last.storedAfter) = last.condition.Status
          /\ AvailableReason(last.storedAfter) = last.condition.Reason
    /\ (last.kind = "single" /\ last.updateCalled /\ last.err) =>
          /\ KeyItem(last.key) \in queue
          /\ last.storedAfter = last.storedBefore

\* another writer added its condition between the read from the cache and
\* the update; the hub has both conditions after the update
C13_Witness ==
    /\ last.kind = "single" /\ last.updated
    /\ FindStatusCondition(last.readConditions, OtherCondition.Type, 1) = 0
    /\ FindStatusCondition(last.storedBefore, OtherCondition.Type, 1) # 0
    /\ \E j \in 1..Len(last.storedAfter) : last.storedAfter[j] = OtherCondition
    /\ AvailableStatus(last.storedAfter) = last.condition.Status

\* C14: a resync whose listing of the add-ons fails returns the error, adds
\* nothing to the queue, writes nothing to the hub and records no event.
C14_ListErrorAborts ==
    [][(last' # last /\ last'.kind = "resync" /\ last'.stage = "listErr") =>
          /\ last'.err
          /\ last'.enqueued = {}
          /\ queue' = queue
          /\ addOnStore' = addOnStore
          /\ ~last'.updateCalled /\ ~last'.updated /\ ~last'.event
      ]_vars

\* the listing failed while the cache held an add-on with a readable
\* configuration, which is not in the queue
C14_Witness ==
    /\ last.kind = "resync" /\ last.stage = "listErr" /\ last.err
    /\ addOnCache[<<"a">>].exists /\ addOnCache[<<"a">>].config.readable
    /\ AddOnItem(<<"a">>) \notin queue

\* C15: a reconciliation whose lease lookup fails with an error other than
\* not-found returns the error, computes no condition, calls no update and
\* records no event; the hub stores the conditions it stored before.
C15_LeaseErrorReturned ==
    (last.kind = "single" /\ last.stage = "leaseGetErr") =>
        /\ last.err
        /\ last.condition = NoCondition
        /\ ~last.updateCalled /\ ~last.updated /\ ~last.event
        /\ last.storedAfter = last.storedBefore

\* the lookup of the lease of an existing add-on failed; the add-on keeps
\* the conditions it had
C15_Witness ==
    /\ last.kind = "single" /\ last.stage = "leaseGetErr" /\ last.err
    /\ last.name = <<"a">> /\ addOnStore[<<"a">>].exists
    /\ last.storedBefore # <<>>
    /\ addOnStore[<<"a">>].conditions = last.storedBefore

\* C17: a reconciliation whose key names an add-on that the cache does not
\* have returns no error, looks up no lease, calls no update, records no
\* event and leaves the hub as it was, so the add-on is not created; when
\* the lookup of the add-on fails with another error, the error is returned.
C17_MissingAddOnIsNoOp ==
    [][/\ (last' # last /\ last'.kind = "single" /\ last'.stage = "addOnNotFound") =>
            /\ ~last'.err
            /\ last'.leaseGet = "none" /\ last'.condition = NoCondition
            /\ ~last'.updateCalled /\ ~last'.updated /\ ~last'.event
            /\ addOnStore' = addOnStore
            /\ leases' = leases
       /\ (last' # last /\ last'.kind = "single" /\ last'.stage = "addOnGetErr") =>
            /\ last'.err
            /\ ~last'.updateCalled /\ ~last'.event
            /\ addOnStore' = addOnStore
      ]_vars

\* the add-on was deleted after its key was added to the queue; the
\* reconciliation of the key returned no error and the add-on is still absent
C17_Witness ==
    /\ last.kind = "single" /\ last.stage = "addOnNotFound" /\ ~last.err
    /\ last.name = <<"a">>
    /\ ~addOnStore[<<"a">>].exists
    /\ KeyItem(last.key) \notin queue

\* C18: a reconciliation whose update of the status fails returns the error
\* and records no event; a failed update is never returned as success.
C18_UpdateErrorReturned ==
    (last.kind = "single" /\ last.stage = "updateErr") =>
        /\ last.updateCalled
        /\ last.err
        /\ ~last.event /\ ~last.updated
        /\ last.storedAfter = last.storedBefore

\* the update of an add-on that the hub has failed; the status the
\* reconciliation computed is not stored
C18_Witness ==
    /\ last.kind = "single" /\ last.stage = "updateErr" /\ last.err
    /\ addOnStore[last.name].exists
    /\ AvailableStatus(last.storedAfter) # last.condition.Status

\* the steps of the controller (its invocations of sync, the worker's
\* handling of a queue item, the informer's call of queueKeyFunc for a
\* lease delivered again) are the steps that are not the environment's:
\* every step of the environment advances the clock, counts in epoch or
\* changes the add-on cache
ControllerStep == UNCHANGED <<now, epoch, addOnCache>>

\* the conditions of a type other than the available type
OtherConditions(conditions) ==
    SelectSeq(conditions, LAMBDA c : c.Type # addOnAvailableConditionType)

\* C19: a step of the controller changes no lease; of an add-on it changes
\* neither the existence nor the configuration nor a condition of another
\* type, and the one add-on it may change is the add-on named by the key of
\* the reconciliation that completes with an update of the status. No
\* step that changes an add-on is one that adds the queue key of a lease.
C19_Frame ==
    [][/\ ControllerStep =>
            /\ leases' = leases
            /\ addOnStore' # addOnStore =>
                  \A n \in Names :
                     /\ addOnStore'[n].exists = addOnStore[n].exists
                     /\ addOnStore'[n].config = addOnStore[n].config
                     /\ OtherConditions(addOnStore'[n].conditions)
                           = OtherConditions(addOnStore[n].conditions)
                     /\ addOnStore'[n] # addOnStore[n] =>
                           /\ last'.kind = "single" /\ last'.updated
                           /\ n = last'.name
                           /\ n = SplitMetaNamespaceKey(last'.key).name
                           /\ AvailableStatus(addOnStore'[n].conditions)
                                 = last'.condition.Status
       /\ addOnStore' # addOnStore =>
            \A ns \in Namespaces, n \in ActiveNames :
                ~(queue' # queue /\ queue' = Enqueued(ns, n))
      ]_vars

\* the controller replaced the available condition of add-on a, which has
\* a condition of another writer, a lease and its configuration
C19_Witness ==
    /\ last.kind = "single" /\ last.stage = "updated" /\ last.updated
    /\ last.name = <<"a">>
    /\ AvailableStatus(last.storedBefore) \notin {"", last.condition.Status}
    /\ OtherConditions(last.storedAfter) = <<OtherCondition>>
    /\ addOnStore[<<"a">>].config = Config(<<"ns1">>)
    /\ leases[<<(<<"ns1">>), (<<"a">>)>>].exists
    /\ addOnStore[<<"b">>] = AddOn(NoConfig, <<>>)

\* a key of the form namespace "/" name with both parts non-empty
WellFormedKey(key) ==
    LET parts == StringsSplit(key) IN
    Len(parts) = 2 /\ parts[1] # <<>> /\ parts[2] # <<>>

\* C16: a reconciliation of a key that is not of the form namespace/name
\* (no separator, or more than one) returns no error, looks up no lease,
\* calls no update and records no event.
C16_MalformedKeyDropped ==
    /\ \A key \in DOMAIN inflight : WellFormedKey(key)
    /\ (last.kind = "single" /\ ~WellFormedKey(last.key)) =>
          /\ last.stage = "badKey"
          /\ ~last.err
          /\ last.leaseGet = "none"
          /\ ~last.updateCalled /\ ~last.updated /\ ~last.event

\* C20: no two reconciliations of one add-on are in progress at the same
\* time: the runs between the read of the add-on and the update of its
\* status have different add-on names.
C20_OneReconciliationPerAddOn ==
    \A k1 \in DOMAIN inflight, k2 \in DOMAIN inflight :
        inflight[k1].name = inflight[k2].name => k1 = k2

\* the status the evaluation of syncSingle gives now for the lease of an
\* add-on in its installation namespace
ExpectedStatus(n) ==
    LET ns == addOnStore[n].config.InstallationNamespace
        lease == leases[<<ns, n>>]
    IN  EvaluateCondition([notFound |-> ~lease.exists, lease |-> lease], now).Status

\* every add-on with a readable configuration has the expected status
Converged ==
    \A n \in ActiveNames :
        (addOnStore[n].exists /\ addOnStore[n].config.readable) =>
            AvailableStatus(addOnStore[n].conditions) = ExpectedStatus(n)

\* the agent of an add-on has stopped renewing: the lease in the
\* installation namespace of the add-on is older than the grace period
StoppedRenewing(n) ==
    /\ addOnStore[n].exists /\ addOnStore[n].config.readable
    /\ leases[<<addOnStore[n].config.InstallationNamespace, n>>].exists
    /\ ExpectedStatus(n) = ConditionFalse

\* from some time on every add-on has the expected status; leases,
\* configurations and the clock change only finitely often
EventuallyConverged == <>[]Converged

\* an add-on whose agent has stopped renewing gets the status False, unless
\* the lease is renewed or deleted or the add-on changes before
StoppedRenewingBecomesFalse ==
    \A n \in ActiveNames :
        StoppedRenewing(n) ~>
            (~StoppedRenewing(n) \/ AvailableStatus(addOnStore[n].conditions) = ConditionFalse)

\* C11: under fair scheduling of the resync and of the workers, the stored
\* status of every add-on with a readable configuration is in the end the
\* status evaluated for its lease in its installation namespace; when the
\* agent stops renewing the lease and no lease notification arrives, the
\* stored status becomes False once the grace period has passed.
C11_Converges == EventuallyConverged /\ StoppedRenewingBecomesFalse

====
